---- MODULE Spec2Model ----
(***************************************************************************)
(* A model of AggregationService (teable, aggregation.service.ts):         *)
(* performAggregation, performRowCount, getFieldsData, getStatisticFields, *)
(* formatConvertValue, groupDbCollection2GroupPoints, getGroupPoints.      *)
(*                                                                         *)
(* The service keeps no state between calls: a behaviour is one call.     *)
(* pc is the position inside the call, op the method called, args its      *)
(* arguments together with what the store holds for it, calls the store    *)
(* and collaborator calls made so far, locals the local bindings of the    *)
(* method, result what the call returned. The store and the collaborators *)
(* answer every call: a call ends with its result, or with the error the   *)
(* service itself throws.                                                  *)
(***************************************************************************)
EXTENDS Integers, Sequences, FiniteSets, TLC

VARIABLES pc, op, args, locals, calls, result

vars == <<pc, op, args, locals, calls, result>>

(* ---------------------------------------------------------------- bounds *)

\* longest grouped result the decoder is run on
MaxRows == 3

\* longest list of statistics a caller gives (customFieldStats)
MaxStats == 2

\* most record ids a link selection resolves to
MaxIds == 3

\* most rows of the table that pass the filter of a grouping request
MaxTableRows == 3


(* ------------------------------------------------------ JavaScript values *)

\* A JavaScript value is a record (kind, v, ms). A text is the sequence v of
\* its comma-separated parts, each part a number standing for what is written
\* there (0: nothing, the empty part); a time is v to the second and ms below
\* the second; a number is <<n>>. An object (a Date) is built anew by the
\* driver for every row. Symbol() is the decoder's "nothing seen yet" marker.
NullV == [kind |-> "null", v |-> <<>>, ms |-> 0]

UndefinedV == [kind |-> "undefined", v |-> <<>>, ms |-> 0]

NumberV(n) == [kind |-> "number", v |-> <<n>>, ms |-> 0]

BigIntV(n) == [kind |-> "bigint", v |-> <<n>>, ms |-> 0]

StringV(parts) == [kind |-> "string", v |-> parts, ms |-> 0]

DateV(t, m) == [kind |-> "date", v |-> <<t>>, ms |-> m]

Symbol == [kind |-> "symbol", v |-> <<>>, ms |-> 0]

\* lodash isObject: true of objects, false of null and of primitives
isObject(x) == x.kind = "date"

\* lodash isDate
isDate(x) == x.kind = "date"

\* String(x) of an object: Date.prototype.toString, which prints the time to
\* the second and drops the milliseconds
String(x) == [kind |-> "string", v |-> x.v, ms |-> 0]

\* Date.prototype.toISOString: the time with its milliseconds
toISOString(x) == [kind |-> "string", v |-> x.v, ms |-> x.ms]

\* a === b: primitives by value; two objects of different rows are never the
\* same object; a Symbol() equals nothing that comes from a row
StrictEquals(a, b) ==
    /\ a.kind \notin {"symbol", "date"}
    /\ b.kind \notin {"symbol", "date"}
    /\ a = b

(* ------------------------------------------------------------ the fields *)

fldDate == [id |-> "fldDate", name |-> "Created", dbFieldName |-> "created_col",
            dbFieldType |-> "DateTime"]

fldText == [id |-> "fldText", name |-> "Status", dbFieldName |-> "status_col",
            dbFieldType |-> "Text"]

\* what a result row can hold in the column of a field
ColumnValues(field) ==
    IF field.dbFieldType = "DateTime"
    THEN {DateV(1, 0), DateV(1, 1), DateV(2, 0)}
    ELSE {NullV, StringV(<<1>>), StringV(<<2>>)}

(* ------------------------------------------- groupDbCollection2GroupPoints *)

Header(field, index, fieldValue) ==
    [type |-> "Header", depth |-> index,
     id |-> <<field.id, fieldValue>>,            \* string2Hash(`${id}_${fieldValue}`)
     value |-> fieldValue]                       \* field.convertDBValue2CellValue

Row(count) == [type |-> "Row", count |-> count]

\* isObject(item[dbFieldName]) ? String(item[dbFieldName]) : item[dbFieldName]
FieldValue(item, field) ==
    IF isObject(item[field.dbFieldName])
    THEN String(item[field.dbFieldName])
    ELSE item[field.dbFieldName]

\* a decoder that never resets the depth-1 last-seen value
FieldStepNoReset(st, item, field, index) ==
    LET fieldValue == FieldValue(item, field) IN
    IF index = 0 /\ StrictEquals(st.firstDbFieldValue, fieldValue) THEN st
    ELSE IF index = 1 /\ StrictEquals(st.secondDbFieldValue, fieldValue) THEN st
    ELSE [firstDbFieldValue  |-> IF index = 0 THEN fieldValue ELSE st.firstDbFieldValue,
          secondDbFieldValue |-> IF index = 1 THEN fieldValue ELSE st.secondDbFieldValue,
          groupPoints |-> Append(st.groupPoints, Header(field, index, fieldValue))]

\* a decoder that emits a Header for every row
FieldStepEveryRow(st, item, field, index) ==
    LET fieldValue == FieldValue(item, field) IN
    [firstDbFieldValue  |-> IF index = 0 THEN fieldValue ELSE st.firstDbFieldValue,
     secondDbFieldValue |-> IF index = 1 THEN fieldValue ELSE st.secondDbFieldValue,
     groupPoints |-> Append(st.groupPoints, Header(field, index, fieldValue))]

\* the callback of groupFields.forEach: st is (firstDbFieldValue,
\* secondDbFieldValue, groupPoints), index is 0-based as in the source
FieldStep(st, item, field, index) ==
    LET fieldValue == FieldValue(item, field) IN
    IF index = 0 /\ StrictEquals(st.firstDbFieldValue, fieldValue) THEN st
    ELSE IF index = 1 /\ StrictEquals(st.secondDbFieldValue, fieldValue) THEN st
    ELSE [firstDbFieldValue  |-> IF index = 0 THEN fieldValue ELSE st.firstDbFieldValue,
          secondDbFieldValue |-> IF index = 0 THEN Symbol
                                 ELSE IF index = 1 THEN fieldValue
                                 ELSE st.secondDbFieldValue,
          groupPoints |-> Append(st.groupPoints, Header(field, index, fieldValue))]

RECURSIVE FieldsFrom(_, _, _, _)
\* groupFields.forEach((field, index) => ...) from position i (1-based) on
FieldsFrom(st, item, groupFields, i) ==
    IF i > Len(groupFields) THEN st
    ELSE FieldsFrom(FieldStep(st, item, groupFields[i], i - 1), item, groupFields, i + 1)

\* a decoder that emits the Row marker only under a fresh Header
ItemStepRowUnderHeader(st, item, groupFields) ==
    LET after == FieldsFrom(st, item, groupFields, 1) IN
    IF Len(after.groupPoints) = Len(st.groupPoints) THEN after
    ELSE [after EXCEPT !.groupPoints = Append(@, Row(item["__c"]))]

\* the callback of groupResult.forEach: the Headers of the row, then its Row
ItemStep(st, item, groupFields) ==
    LET after == FieldsFrom(st, item, groupFields, 1) IN
    [after EXCEPT !.groupPoints = Append(@, Row(item["__c"]))]

RECURSIVE ItemsFrom(_, _, _, _)
ItemsFrom(st, groupResult, groupFields, i) ==
    IF i > Len(groupResult) THEN st
    ELSE ItemsFrom(ItemStep(st, groupResult[i], groupFields), groupResult, groupFields, i + 1)

groupDbCollection2GroupPoints(groupResult, groupFields) ==
    ItemsFrom([firstDbFieldValue |-> Symbol, secondDbFieldValue |-> Symbol,
               groupPoints |-> <<>>],
              groupResult, groupFields, 1).groupPoints

(* ------------------------------------------------- inputs of the decoder *)

\* the group-by lists: one field, or two in either order
GroupFieldLists == {<<fldDate>>, <<fldText>>, <<fldDate, fldText>>, <<fldText, fldDate>>}

FieldNames(groupFields) == {groupFields[i].dbFieldName : i \in 1..Len(groupFields)}

FieldOfName(groupFields, n) ==
    CHOOSE f \in {groupFields[i] : i \in 1..Len(groupFields)} : f.dbFieldName = n

\* the per-group row counts (__c) a result row can carry
Counts == {1, 2}

\* the result rows of a grouped query: a column per group field, and __c
ResultRows(groupFields) ==
    LET names == FieldNames(groupFields) IN
    {[k \in names \cup {"__c"} |-> IF k = "__c" THEN c ELSE cells[k]] :
        c \in Counts,
        cells \in {g \in [names -> UNION {ColumnValues(FieldOfName(groupFields, n)) : n \in names}] :
                      \A n \in names : g[n] \in ColumnValues(FieldOfName(groupFields, n))}}

SeqsUpTo(S, n) == UNION {[1..k -> S] : k \in 0..n}

(* ------------------------------------------------------------ the decoder *)

InitDecode ==
    /\ pc = "idle"
    /\ op = "groupDbCollection2GroupPoints"
    /\ \E groupFields \in GroupFieldLists :
         \E groupResult \in SeqsUpTo(ResultRows(groupFields), MaxRows) :
            args = [groupResult |-> groupResult, groupFields |-> groupFields]
    /\ locals = <<>>
    /\ calls = <<>>
    /\ result = <<>>

Decode ==
    /\ pc = "idle"
    /\ op = "groupDbCollection2GroupPoints"
    /\ result' = groupDbCollection2GroupPoints(args.groupResult, args.groupFields)
    /\ pc' = "done"
    /\ UNCHANGED <<op, args, locals, calls>>

NextDecode == Decode

SpecDecode == InitDecode /\ [][NextDecode]_vars

(* ----------------------------------------------------- formatConvertValue *)

\* the statistic functions: the members of StatisticsFunc the service names,
\* and some of the others
StatisticsFunc ==
    {"Count", "Filled", "Unique", "Sum", "DateRangeOfMonths",
     "PercentEmpty", "PercentFilled", "PercentUnique", "PercentChecked", "PercentUnChecked"}

\* no function given: aggFunc is undefined
NoFunc == "undefined"

convertValueToNumberOrString(currentValue) ==
    IF currentValue.kind \in {"bigint", "number"} THEN NumberV(currentValue.v[1])
    ELSE IF isDate(currentValue) THEN toISOString(currentValue)
    ELSE IF currentValue.kind \in {"null", "undefined"} THEN NullV
    ELSE currentValue                                  \* toString() of a string

\* currentValue.split(','): [maxTime, minTime], a missing or empty part is
\* falsy; dayjs(maxTime).diff(minTime, 'month') of two dates given as months
calculateDateRangeOfMonths(currentValue) ==
    LET parts == currentValue.v
        maxTime == IF Len(parts) >= 1 THEN parts[1] ELSE 0
        minTime == IF Len(parts) >= 2 THEN parts[2] ELSE 0
    IN IF maxTime # 0 /\ minTime # 0 THEN NumberV(maxTime - minTime) ELSE NumberV(0)

\* a list of defaults that misses PercentUnique
defaultToZeroWithoutUnique ==
    {"PercentEmpty", "PercentFilled", "PercentChecked", "PercentUnChecked"}

defaultToZero ==
    {"PercentEmpty", "PercentFilled", "PercentUnique", "PercentChecked", "PercentUnChecked"}

formatConvertValue(currentValue, aggFunc) ==
    LET convertValue == convertValueToNumberOrString(currentValue)
        ranged == IF aggFunc = "DateRangeOfMonths" /\ currentValue.kind = "string"
                  THEN calculateDateRangeOfMonths(currentValue)
                  ELSE convertValue
    IN IF aggFunc = NoFunc THEN convertValue
       ELSE IF aggFunc \in defaultToZero /\ ranged = NullV THEN NumberV(0)
       ELSE ranged

\* the raw scalars a result column can hold
RawValues ==
    {NullV, UndefinedV, NumberV(0), NumberV(5), BigIntV(7), DateV(3, 1),
     StringV(<<3, 1>>), StringV(<<1, 3>>), StringV(<<3>>), StringV(<<3, 0>>),
     StringV(<<0, 1>>), StringV(<<0>>)}

InitConvert ==
    /\ pc = "idle"
    /\ op = "formatConvertValue"
    /\ \E currentValue \in RawValues, aggFunc \in StatisticsFunc \cup {NoFunc} :
          args = [currentValue |-> currentValue, aggFunc |-> aggFunc]
    /\ locals = <<>>
    /\ calls = <<>>
    /\ result = <<>>

Convert ==
    /\ pc = "idle"
    /\ op = "formatConvertValue"
    /\ result' = formatConvertValue(args.currentValue, args.aggFunc)
    /\ pc' = "done"
    /\ UNCHANGED <<op, args, locals, calls>>

NextConvert == Convert

SpecConvert == InitConvert /\ [][NextConvert]_vars

(* ------------------------------------------------------ optional values *)

\* an optional list or record: undefined, or the value
None == [has |-> FALSE]

Some(x) == [has |-> TRUE, val |-> x]

\* an optional string: the string, or undefined
Undefined == "undefined"

(* ------------------------------------------------------------ getFieldsData *)

FieldIds == {"fld1", "fld2", "fld3"}

\* a field's name: its own, or a text that is also a field id
FieldNames3 == {"fld1", "fld2", "Title"}

Field(id, name) == [id |-> id, name |-> name, dbFieldName |-> id, dbFieldType |-> "Text"]

\* the rows prisma.field.findMany can return: fields with different ids, in
\* any order (the query states no order)
FieldsRaw ==
    {s \in SeqsUpTo({Field(i, n) : i \in FieldIds, n \in FieldNames3}, Cardinality(FieldIds)) :
        \A i, j \in 1..Len(s) : i # j => s[i].id # s[j].id}

EmptyMap == [k \in {} |-> None]

\* a reducer that keeps the first field written under a key
MapStepKeepFirst(map, field) == map @@ (field.id :> field) @@ (field.name :> field)

\* the reducer: map[field.id] = field; map[field.name] = field
MapStep(map, field) == (field.name :> field) @@ (field.id :> field) @@ map

RECURSIVE Reduce(_, _, _)
Reduce(map, fieldInstances, i) ==
    IF i > Len(fieldInstances) THEN map
    ELSE Reduce(MapStep(map, fieldInstances[i]), fieldInstances, i + 1)

\* fieldsRaw: the rows of the table's fields the store returns (those of
\* fieldIds when given); createFieldInstanceByRaw keeps id and name
getFieldsData(fieldsRaw, fieldIds) ==
    LET found == IF fieldIds.has
                 THEN SelectSeq(fieldsRaw, LAMBDA f : f.id \in fieldIds.val)
                 ELSE fieldsRaw
    IN [fieldInstances |-> found, fieldInstanceMap |-> Reduce(EmptyMap, found, 1)]

GetFieldsData ==
    /\ pc = "idle"
    /\ \E fieldsRaw \in FieldsRaw, fieldIds \in {None, Some({"fld1", "fld2"})} :
          /\ args' = [fieldsRaw |-> fieldsRaw, fieldIds |-> fieldIds]
          /\ result' = getFieldsData(fieldsRaw, fieldIds)
    /\ op' = "getFieldsData"
    /\ calls' = <<[call |-> "prisma.field.findMany"]>>
    /\ pc' = "done"
    /\ UNCHANGED locals

(* ------------------------------------------- the statistics parameters *)

\* the table the statistics are taken of has these fields, loaded in this order
TableFields == <<fldDate, fldText>>

\* prisma.view.findFirst: the stored view of that id, when there is one
findView(store, withView) ==
    IF ~withView.has \/ withView.val.viewId = Undefined THEN None
    ELSE IF store.view.has /\ store.view.val.id = withView.val.viewId THEN store.view
    ELSE None

filterFieldInstances(fieldInstances, withView, withFieldIds) ==
    LET targetFieldIds ==
            IF withView.has /\ withView.val.customFieldStats.has
            THEN Some({withView.val.customFieldStats.val[i].fieldId :
                          i \in 1..Len(withView.val.customFieldStats.val)})
            ELSE withFieldIds
    IN IF targetFieldIds.has /\ targetFieldIds.val # {}
       THEN SelectSeq(fieldInstances, LAMBDA instance : instance.id \in targetFieldIds.val)
       ELSE fieldInstances

\* mergeWithDefaultFilter: a filter is the list of its conjuncts; the view's
\* filter and the caller's, both when both are given, none when neither is
mergeWithDefaultFilter(defaultViewFilter, queryFilter) ==
    LET base == IF defaultViewFilter = Undefined THEN <<>> ELSE <<defaultViewFilter>>
        override == IF queryFilter = Undefined THEN <<>> ELSE <<queryFilter>>
    IN IF base \o override = <<>> THEN None ELSE Some(base \o override)

\* the functions the caller gave for a field: customFieldStatsGrouped[fieldId]
\* without the entries that name no function
CallerFuncs(fieldId, customFieldStats) ==
    IF ~customFieldStats.has THEN <<>>
    ELSE LET mine == SelectSeq(customFieldStats.val,
                               LAMBDA item : item.fieldId = fieldId /\ item.statisticFunc # Undefined)
         IN [i \in 1..Len(mine) |-> mine[i].statisticFunc]

\* the entries of a field that leave the view's hidden mark unread
StatisticFieldsOfHiddenToo(fieldInstance, columnMeta, customFieldStats) ==
    LET fieldId == fieldInstance.id
        hasMeta == columnMeta.has /\ fieldId \in DOMAIN columnMeta.val
        hasCustom == customFieldStats.has
                     /\ \E i \in 1..Len(customFieldStats.val) : customFieldStats.val[i].fieldId = fieldId
        statisticFunc == IF hasMeta THEN columnMeta.val[fieldId].statisticFunc ELSE Undefined
        statisticFuncList == CallerFuncs(fieldId, customFieldStats)
        funcList == IF statisticFuncList # <<>> THEN statisticFuncList
                    ELSE IF statisticFunc # Undefined THEN <<statisticFunc>> ELSE <<>>
    IN IF hasMeta \/ hasCustom
       THEN [i \in 1..Len(funcList) |-> [fieldId |-> fieldId, statisticFunc |-> funcList[i]]]
       ELSE <<>>

\* the body of fieldInstances.forEach in getStatisticFields: the entries one
\* field contributes
StatisticFieldsOf(fieldInstance, columnMeta, customFieldStats) ==
    LET fieldId == fieldInstance.id
        hasMeta == columnMeta.has /\ fieldId \in DOMAIN columnMeta.val
        hasCustom == customFieldStats.has
                     /\ \E i \in 1..Len(customFieldStats.val) : customFieldStats.val[i].fieldId = fieldId
        hidden == hasMeta /\ columnMeta.val[fieldId].hidden
        statisticFunc == IF hasMeta THEN columnMeta.val[fieldId].statisticFunc ELSE Undefined
        statisticFuncList == CallerFuncs(fieldId, customFieldStats)
        funcList == IF statisticFuncList # <<>> THEN statisticFuncList
                    ELSE IF statisticFunc # Undefined THEN <<statisticFunc>> ELSE <<>>
    IN IF (hasMeta \/ hasCustom) /\ ~hidden
       THEN [i \in 1..Len(funcList) |-> [fieldId |-> fieldId, statisticFunc |-> funcList[i]]]
       ELSE <<>>

RECURSIVE StatisticFieldsFrom(_, _, _, _)
StatisticFieldsFrom(fieldInstances, columnMeta, customFieldStats, i) ==
    IF i > Len(fieldInstances) THEN <<>>
    ELSE StatisticFieldsOf(fieldInstances[i], columnMeta, customFieldStats)
         \o StatisticFieldsFrom(fieldInstances, columnMeta, customFieldStats, i + 1)

\* undefined until a field contributes an entry
getStatisticFields(fieldInstances, columnMeta, customFieldStats) ==
    LET calculatedStatisticFields ==
            StatisticFieldsFrom(fieldInstances, columnMeta, customFieldStats, 1)
    IN IF calculatedStatisticFields = <<>> THEN None ELSE Some(calculatedStatisticFields)

buildStatisticsData(filteredFieldInstances, viewRaw, withView) ==
    LET viewFilter == IF viewRaw.has THEN viewRaw.val.filter ELSE Undefined
        customFilter == IF withView.has THEN withView.val.customFilter ELSE Undefined
        customFieldStats == IF withView.has THEN withView.val.customFieldStats ELSE None
    IN [viewId |-> IF viewRaw.has THEN viewRaw.val.id ELSE Undefined,
        filter |-> IF viewFilter # Undefined \/ customFilter # Undefined
                   THEN mergeWithDefaultFilter(viewFilter, customFilter)
                   ELSE None,
        statisticFields |->
            IF viewRaw.has \/ customFieldStats.has
            THEN getStatisticFields(filteredFieldInstances,
                                    IF viewRaw.has THEN viewRaw.val.columnMeta ELSE None,
                                    customFieldStats)
            ELSE None]

\* the store calls of fetchStatisticsParams, in order
fetchCalls(withView) ==
    (IF withView.has /\ withView.val.viewId # Undefined
     THEN <<[call |-> "prisma.view.findFirst"]>> ELSE <<>>)
    \o <<[call |-> "prisma.field.findMany"]>>

fetchStatisticsParams(store, withView, withFieldIds) ==
    LET viewRaw == findView(store, withView)
        fields == getFieldsData(store.fieldsRaw, None)
        filteredFieldInstances ==
            filterFieldInstances(fields.fieldInstances, withView, withFieldIds)
    IN [statisticsData |-> buildStatisticsData(filteredFieldInstances, viewRaw, withView),
        fieldInstanceMap |-> fields.fieldInstanceMap,
        filteredFieldInstances |-> filteredFieldInstances,
        viewRaw |-> viewRaw]

(* ---------------------------------------------------- performAggregation *)

\* the column of a statistic in the result row: `${fieldId}_${statisticFunc}`,
\* which key.split('_') takes apart again (ids and functions hold no '_')
ColumnKey(statisticField) == <<statisticField.fieldId, statisticField.statisticFunc>>

RECURSIVE Columns(_, _, _)
\* the one result row of the aggregation query: a column per statistic, a key
\* asked for twice is one property of the row object
Columns(statisticFields, raw, seen) ==
    IF statisticFields = <<>> THEN <<>>
    ELSE LET key == ColumnKey(Head(statisticFields)) IN
         IF key \in seen THEN Columns(Tail(statisticFields), raw, seen)
         ELSE <<[key |-> key, value |-> raw[key[2]]]>>
              \o Columns(Tail(statisticFields), raw, seen \cup {key})

\* a handleAggregation that asks the store whatever the list is
handleAggregationUnguarded(statisticFields, filter, raw) ==
    [calls |-> (IF filter.has THEN <<[call |-> "dbProvider.filterQuery"]>> ELSE <<>>)
               \o <<[call |-> "prisma.$queryRawUnsafe", query |-> "aggregation"]>>,
     rawAggregationData |->
        Some(<<Columns(IF statisticFields.has THEN statisticFields.val ELSE <<>>, raw, {})>>)]

\* handleAggregation: no query unless the list holds a statistic; else the
\* filtered table as main_table, the aggregates over it, one execution
handleAggregation(statisticFields, filter, raw) ==
    IF ~statisticFields.has \/ Len(statisticFields.val) = 0
    THEN [calls |-> <<>>, rawAggregationData |-> None]
    ELSE [calls |-> (IF filter.has THEN <<[call |-> "dbProvider.filterQuery"]>> ELSE <<>>)
                    \o <<[call |-> "prisma.$queryRawUnsafe", query |-> "aggregation"]>>,
          rawAggregationData |-> Some(<<Columns(statisticFields.val, raw, {})>>)]

\* Object.entries(aggregationResult) decoded entry by entry
Aggregations(aggregationResult) ==
    [i \in 1..Len(aggregationResult) |->
        LET fieldId == aggregationResult[i].key[1]
            aggFunc == aggregationResult[i].key[2]
            convertValue == formatConvertValue(aggregationResult[i].value, aggFunc)
        IN [fieldId |-> fieldId,
            total |-> IF aggFunc # NoFunc
                      THEN Some([value |-> convertValue, aggFunc |-> aggFunc])
                      ELSE None]]

\* raw: what the store computes for each function
performAggregation(store, withFieldIds, withView, raw) ==
    LET params == fetchStatisticsParams(store, withView, withFieldIds)
        filter == params.statisticsData.filter
        statisticFields == params.statisticsData.statisticFields
        handled == handleAggregation(statisticFields, filter, raw)
        rawAggregationData == handled.rawAggregationData
    IN [locals |-> params,
        calls |-> fetchCalls(withView)
                  \o <<[call |-> "prisma.tableMeta.findUniqueOrThrow"]>>
                  \o handled.calls,
        result |-> [aggregations |->
                      IF rawAggregationData.has /\ Len(rawAggregationData.val) > 0
                      THEN Aggregations(rawAggregationData.val[1])
                      ELSE <<>>]]

(* ------------------------------------------------------- performRowCount *)

\* handleRowCount and getRowCount: the filter compiled into the query, the
\* link candidates narrowed, the clauses cleared, one COUNT(*) executed
handleRowCount(filter, filterLinkCellCandidate) ==
    (IF filter.has THEN <<[call |-> "dbProvider.filterQuery"]>> ELSE <<>>)
    \o (IF filterLinkCellCandidate # Undefined
        THEN <<[call |-> "recordService.buildLinkCandidateQuery"]>> ELSE <<>>)
    \o <<[call |-> "prisma.$queryRawUnsafe", query |-> "count"]>>

\* a performRowCount that counts the rows before it looks at the selection
performRowCountCountFirst(store, queryRo, ids, rawRowCountData) ==
    LET withView == Some([viewId |-> queryRo.viewId, customFilter |-> queryRo.filter,
                          customFieldStats |-> None])
        params == fetchStatisticsParams(store, withView, None)
        filter == params.statisticsData.filter
    IN [locals |-> params,
        calls |-> fetchCalls(withView)
                  \o <<[call |-> "prisma.tableMeta.findUniqueOrThrow"]>>
                  \o handleRowCount(filter, queryRo.filterLinkCellCandidate),
        result |-> [rowCount |-> IF rawRowCountData.has THEN rawRowCountData.val ELSE 0]]

\* ids: what the selection resolves to; rawRowCountData: the count the store
\* answers the count query with, when its row has one
performRowCount(store, queryRo, ids, rawRowCountData) ==
    LET withView == Some([viewId |-> queryRo.viewId, customFilter |-> queryRo.filter,
                          customFieldStats |-> None])
        params == fetchStatisticsParams(store, withView, None)
        filter == params.statisticsData.filter
        before == fetchCalls(withView) \o <<[call |-> "prisma.tableMeta.findUniqueOrThrow"]>>
    IN IF queryRo.filterLinkCellSelected # Undefined
       THEN [locals |-> params,
             calls |-> before \o <<[call |-> "recordService.getLinkSelectedRecordIds"]>>,
             result |-> [rowCount |-> Len(ids)]]
       ELSE [locals |-> params,
             calls |-> before \o handleRowCount(filter, queryRo.filterLinkCellCandidate),
             result |-> [rowCount |-> IF rawRowCountData.has THEN rawRowCountData.val ELSE 0]]

(* ------------------------------------------------- inputs of the service *)

\* what a view's column meta says of one field
ColumnMetaEntries ==
    {[hidden |-> TRUE, statisticFunc |-> "Count"],
     [hidden |-> FALSE, statisticFunc |-> "Count"],
     [hidden |-> FALSE, statisticFunc |-> Undefined]}

\* the column meta of the stored view: none, or an entry for some fields
ColumnMetas ==
    {None} \cup {Some(m) : m \in UNION {[ids -> ColumnMetaEntries] :
                                          ids \in SUBSET {fldDate.id, fldText.id}}}

\* the store: the table's fields and its one view
Stores ==
    {[fieldsRaw |-> TableFields,
      view |-> Some([id |-> "viw1", columnMeta |-> columnMeta, filter |-> filter])] :
        columnMeta \in ColumnMetas, filter \in {Undefined, "viewFilter"}}

\* a store whose view the call does not read
PlainStore ==
    [fieldsRaw |-> TableFields,
     view |-> Some([id |-> "viw1", columnMeta |-> None, filter |-> Undefined])]

\* the stores that differ for a call with this view id
StoresFor(viewId) == IF viewId = "viw1" THEN Stores ELSE {PlainStore}

\* a view id: none, the stored view's, or one the store does not know
ViewIds == {Undefined, "viw1", "viwGone"}

CustomFieldStats ==
    {None} \cup {Some(l) : l \in SeqsUpTo([fieldId : {fldDate.id, fldText.id},
                                            statisticFunc : {Undefined, "Sum", "PercentEmpty"}],
                                           MaxStats)}

WithViews ==
    {None} \cup {Some([viewId |-> viewId, customFilter |-> customFilter,
                       customFieldStats |-> customFieldStats]) :
                    viewId \in ViewIds, customFilter \in {Undefined, "callerFilter"},
                    customFieldStats \in CustomFieldStats}

\* what the store computes for the functions asked for
RawResults ==
    {[f \in StatisticsFunc |-> NullV],
     [f \in StatisticsFunc |-> NumberV(5)],
     [f \in StatisticsFunc |-> IF f = "Sum" THEN BigIntV(7) ELSE NullV]}

QueryRos ==
    [viewId : ViewIds, filter : {Undefined, "callerFilter"},
     filterLinkCellCandidate : {Undefined, "candidate"},
     filterLinkCellSelected : {Undefined, "selected"}]

(* ----------------------------------------------------------- the handlers *)

PerformAggregation ==
    /\ pc = "idle"
    /\ \E withView \in WithViews, withFieldIds \in {None, Some({fldText.id})},
          raw \in RawResults :
          \E store \in StoresFor(IF withView.has THEN withView.val.viewId ELSE Undefined) :
            LET done == performAggregation(store, withFieldIds, withView, raw) IN
            /\ args' = [store |-> store, withFieldIds |-> withFieldIds,
                        withView |-> withView, raw |-> raw]
            /\ locals' = done.locals
            /\ calls' = done.calls
            /\ result' = done.result
    /\ op' = "performAggregation"
    /\ pc' = "done"

PerformRowCount ==
    /\ pc = "idle"
    /\ \E queryRo \in QueryRos, n \in 0..MaxIds, rawRowCountData \in {None, Some(0), Some(4)} :
          \E store \in StoresFor(queryRo.viewId) :
            LET ids == [i \in 1..n |-> i]
                done == performRowCount(store, queryRo, ids, rawRowCountData) IN
            /\ args' = [store |-> store, queryRo |-> queryRo, ids |-> ids,
                        rawRowCountData |-> rawRowCountData]
            /\ locals' = done.locals
            /\ calls' = done.calls
            /\ result' = done.result
    /\ op' = "performRowCount"
    /\ pc' = "done"

(* --------------------------------------------------------- getGroupPoints *)

\* thresholdConfig.maxGroupPoints, the configured ceiling
maxGroupPoints == 2

\* the order of the store on the values of a column, NULL first
SortKey(x) == IF x.kind = "null" THEN 0 ELSE 10 * x.v[1] + x.ms + 1

ColumnNames == {TableFields[i].dbFieldName : i \in 1..Len(TableFields)}

\* the rows of the table
TableRows ==
    {r \in [ColumnNames -> UNION {ColumnValues(TableFields[i]) : i \in 1..Len(TableFields)}] :
        \A i \in 1..Len(TableFields) :
            r[TableFields[i].dbFieldName] \in ColumnValues(TableFields[i])}

RECURSIVE LexKey(_, _, _)
\* the place of a row in ORDER BY the columns of fields, ascending
LexKey(r, fields, i) ==
    IF i > Len(fields) THEN 0
    ELSE SortKey(r[fields[i].dbFieldName]) * (100 ^ (Len(fields) - i)) + LexKey(r, fields, i + 1)

\* the filtered row sets: up to MaxTableRows rows, a row possibly more than
\* once (written in one order, as the table has none)
FilteredRowSets ==
    {t \in SeqsUpTo(TableRows, MaxTableRows) :
        \A i \in 1..(Len(t) - 1) : LexKey(t[i], TableFields, 1) <= LexKey(t[i + 1], TableFields, 1)}

\* COUNT(DISTINCT column) over the rows: NULL is not counted
CountDistinct(rows, field) ==
    Cardinality({rows[i][field.dbFieldName] : i \in 1..Len(rows)} \ {NullV})

\* the pre-check query has one COUNT(DISTINCT ...) per group field, every one
\* of them named count; distinctResult[0].count is one of them
DistinctCounts(rows, groupFields) ==
    {CountDistinct(rows, groupFields[i]) : i \in 1..Len(groupFields)}

\* a check that passes what is over the ceiling
checkGroupingOverLimitReversed(distinctCount) == distinctCount < maxGroupPoints

\* the comparison checkGroupingOverLimit returns
checkGroupingOverLimit(distinctCount) == distinctCount > maxGroupPoints

\* the columns of a row that the grouped query selects and groups by
Projection(r, groupFields) == [n \in FieldNames(groupFields) |-> r[n]]

RECURSIVE Ordered(_, _)
\* the groups in ORDER BY the group fields
Ordered(groups, groupFields) ==
    IF groups = {} THEN <<>>
    ELSE LET first == CHOOSE g \in groups :
                        \A h \in groups : LexKey(g, groupFields, 1) <= LexKey(h, groupFields, 1)
         IN <<first>> \o Ordered(groups \ {first}, groupFields)

\* SELECT count(*) AS __c, columns ... GROUP BY columns ORDER BY columns
GroupedQuery(rows, groupFields) ==
    LET groups == {Projection(rows[i], groupFields) : i \in 1..Len(rows)}
        ordered == Ordered(groups, groupFields)
    IN [k \in 1..Len(ordered) |->
          [n \in FieldNames(groupFields) \cup {"__c"} |->
              IF n = "__c"
              THEN Cardinality({i \in 1..Len(rows) : Projection(rows[i], groupFields) = ordered[k]})
              ELSE ordered[k][n]]]

\* the group-by lists a request can carry: none, an empty one, one or two fields
GroupBys ==
    {None, Some(<<>>)}
    \cup {Some([i \in 1..Len(l) |-> [fieldId |-> l[i].id, order |-> "asc"]]) : l \in GroupFieldLists}

Queries ==
    [viewId : ViewIds, groupBy : GroupBys, filter : {Undefined, "callerFilter"}]

\* a request returns before it reads the store when it names no view or no
\* group-by field
ReturnsNull(query) ==
    query.viewId = Undefined \/ ~query.groupBy.has \/ query.groupBy.val = <<>>

\* the stores that differ for a request: the filtered rows, and the filter of
\* the view when the request reads that view
GroupStoresFor(query) ==
    {[fieldsRaw |-> TableFields, rows |-> rows,
      view |-> Some([id |-> "viw1", columnMeta |-> None, filter |-> viewFilter])] :
        rows \in IF ReturnsNull(query) THEN {<<>>} ELSE FilteredRowSets,
        viewFilter \in IF ~ReturnsNull(query) /\ query.viewId = "viw1"
                       THEN {Undefined, "viewFilter"} ELSE {Undefined}}

\* getGroupPoints up to the pre-check: the early returns, then the view, the
\* fields, the table name and the two filtered query builders
GetGroupPoints ==
    /\ pc = "idle"
    /\ op' = "getGroupPoints"
    /\ \E query \in Queries :
        \E store \in GroupStoresFor(query) :
          /\ args' = [query |-> query, store |-> store]
          /\ IF ReturnsNull(query)
             THEN /\ locals' = <<>>
                  /\ calls' = <<>>
                  /\ result' = [kind |-> "null"]
                  /\ pc' = "done"
             ELSE LET viewRaw == findView(store, Some([viewId |-> query.viewId]))
                      fieldInstanceMap == getFieldsData(store.fieldsRaw, None).fieldInstanceMap
                      groupBy == query.groupBy.val
                      groupFieldIds == [i \in 1..Len(groupBy) |-> groupBy[i].fieldId]
                      mergedFilter ==
                          mergeWithDefaultFilter(
                              IF viewRaw.has THEN viewRaw.val.filter ELSE Undefined, query.filter)
                  IN
                  /\ locals' = [groupBy |-> groupBy, groupFieldIds |-> groupFieldIds,
                                fieldInstanceMap |-> fieldInstanceMap,
                                mergedFilter |-> mergedFilter]
                  /\ calls' = <<[call |-> "prisma.view.findFirst"],
                                [call |-> "prisma.field.findMany"],
                                [call |-> "prisma.tableMeta.findUniqueOrThrow"]>>
                              \o (IF mergedFilter.has
                                  THEN <<[call |-> "dbProvider.filterQuery"],
                                         [call |-> "dbProvider.filterQuery"]>>
                                  ELSE <<>>)
                  /\ result' = <<>>
                  /\ pc' = "checkGroupingOverLimit"

\* the fields of the group-by, looked up in the map by id
GroupFieldsOf(groupFieldIds, fieldInstanceMap) ==
    [i \in 1..Len(groupFieldIds) |-> fieldInstanceMap[groupFieldIds[i]]]

\* the pre-check: the distinct counts are queried, the scalar read and
\* compared with the ceiling; over it, the call fails
CheckGroupingOverLimit ==
    /\ pc = "checkGroupingOverLimit"
    /\ \E distinctCount \in
            DistinctCounts(args.store.rows,
                           GroupFieldsOf(locals.groupFieldIds, locals.fieldInstanceMap)) :
          /\ calls' = Append(calls, [call |-> "prisma.$queryRawUnsafe",
                                     query |-> "countDistinct", returned |-> distinctCount])
          /\ IF checkGroupingOverLimit(distinctCount)
             THEN /\ result' = [kind |-> "error", status |-> "PAYLOAD_TOO_LARGE"]
                  /\ pc' = "done"
             ELSE /\ result' = result
                  /\ pc' = "groupQuery"
    /\ UNCHANGED <<op, args, locals>>

\* the grouped query: sorted by the group-by, counted per group, executed and
\* decoded
GroupQuery ==
    /\ pc = "groupQuery"
    /\ LET groupFields == GroupFieldsOf(locals.groupFieldIds, locals.fieldInstanceMap)
           groupResult == GroupedQuery(args.store.rows, groupFields)
       IN
       /\ calls' = calls \o <<[call |-> "dbProvider.sortQuery"],
                               [call |-> "prisma.$queryRawUnsafe", query |-> "group",
                                returned |-> Len(groupResult)]>>
       /\ result' = [kind |-> "points",
                     points |-> groupDbCollection2GroupPoints(groupResult, groupFields)]
    /\ pc' = "done"
    /\ UNCHANGED <<op, args, locals>>

(* --------------------------------------------------------- the service *)

Init ==
    /\ pc = "idle"
    /\ op = "none"
    /\ args = <<>>
    /\ locals = <<>>
    /\ calls = <<>>
    /\ result = <<>>

Next ==
    \/ GetFieldsData
    \/ PerformAggregation
    \/ PerformRowCount
    \/ GetGroupPoints
    \/ CheckGroupingOverLimit
    \/ GroupQuery

Spec == Init /\ [][Next]_vars

(* ------------------------------------------------ claims on the decoder *)

DecodeDone == pc = "done" /\ op = "groupDbCollection2GroupPoints"

\* positions of the Row points of a sequence of group points
RowPositions(points) == {k \in 1..Len(points) : points[k].type = "Row"}

\* position of the i-th Row point
RowPosition(points, i) ==
    CHOOSE k \in RowPositions(points) :
        Cardinality({j \in RowPositions(points) : j <= k}) = i

\* the points after the (i-1)-th Row point and before the i-th
Segment(points, i) ==
    SubSeq(points,
           IF i = 1 THEN 1 ELSE RowPosition(points, i - 1) + 1,
           RowPosition(points, i) - 1)

Depths(points) == [k \in 1..Len(points) |-> points[k].depth]

\* the group value of result row i at depth d, as the decoder reads it (an
\* object by its String() rendering)
GroupValueAt(i, d) == FieldValue(args.groupResult[i], args.groupFields[d + 1])

\* row i opens a new run at depth d: it is the first row, or its value at
\* depth d differs from the preceding row's
Changed(i, d) == i = 1 \/ GroupValueAt(i, d) # GroupValueAt(i - 1, d)

RECURSIVE SumCounts(_)
SumCounts(s) == IF s = <<>> THEN 0 ELSE Head(s).count + SumCounts(Tail(s))

RECURSIVE SumResult(_)
SumResult(s) == IF s = <<>> THEN 0 ELSE Head(s)["__c"] + SumResult(Tail(s))

\* C10: n result rows decode to exactly n Row points; the i-th Row point
\* carries the i-th row's count, comes after the Headers of row i (in
\* increasing depth) and before any Header of row i+1; the counts add up to
\* the result's, and an empty result decodes to the empty sequence.
C10_OneRowPointPerRow ==
    DecodeDone =>
        LET n == Len(args.groupResult)
            rows == RowPositions(result) IN
        /\ Cardinality(rows) = n
        /\ n = 0 => result = <<>>
        /\ n > 0 => RowPosition(result, n) = Len(result)
        /\ \A i \in 1..n :
              /\ result[RowPosition(result, i)].count = args.groupResult[i]["__c"]
              /\ LET seg == Segment(result, i) IN
                 /\ \A k \in 1..Len(seg) : seg[k].type = "Header"
                 /\ \A k \in 1..Len(seg) - 1 : seg[k].depth < seg[k + 1].depth
        /\ SumCounts(SelectSeq(result, LAMBDA p : p.type = "Row")) = SumResult(args.groupResult)

\* a decoded result with different counts and a row that opened no Header
C10_Witness ==
    /\ DecodeDone
    /\ Len(args.groupResult) = MaxRows
    /\ args.groupResult[1]["__c"] # args.groupResult[2]["__c"]
    /\ \E i \in 2..Len(args.groupResult) : Segment(result, i) = <<>>
    /\ \E i \in 2..Len(args.groupResult) : Len(Segment(result, i)) = 2

ConvertDone == pc = "done" /\ op = "formatConvertValue"

\* C7: a raw-absent (null or undefined) input converts to the number 0 for
\* each of the five percent-* functions and to an absent (null) value for
\* every other function, DateRangeOfMonths and "no function" included.
C7_AbsentInput ==
    (ConvertDone /\ args.currentValue.kind \in {"null", "undefined"}) =>
        IF args.aggFunc \in {"PercentEmpty", "PercentFilled", "PercentUnique",
                             "PercentChecked", "PercentUnChecked"}
        THEN result = NumberV(0)
        ELSE result = NullV

\* an absent input has been converted for PercentUnique
C7_Witness ==
    /\ ConvertDone
    /\ args.currentValue = UndefinedV
    /\ args.aggFunc = "PercentUnique"
    /\ result = NumberV(0)

(* ----------------------------------------------- claims on getFieldsData *)

FieldsDone == pc = "done" /\ op = "getFieldsData"

\* the position of the last loaded field that has k as its id or its name
LastWriter(fieldInstances, k) ==
    CHOOSE i \in 1..Len(fieldInstances) :
        /\ k \in {fieldInstances[i].id, fieldInstances[i].name}
        /\ \A j \in (i + 1)..Len(fieldInstances) :
              k \notin {fieldInstances[j].id, fieldInstances[j].name}

\* C9 as stated: when one field's name equals another field's id, the key
\* resolves to the field that has it as its name, whatever the load order.
C9_NameAlwaysWins ==
    FieldsDone =>
        \A i, j \in 1..Len(result.fieldInstances) :
            LET byName == result.fieldInstances[i]
                byId == result.fieldInstances[j] IN
            (i # j /\ byName.name = byId.id) =>
                result.fieldInstanceMap[byId.id] = byName

\* C9 as amended: every key of the map resolves to the field loaded last
\* among those that have it as id or name; a key that is one field's name and
\* another's id resolves to the one of the two loaded later.
C9_LastWriteWins ==
    FieldsDone =>
        /\ DOMAIN result.fieldInstanceMap =
              {result.fieldInstances[i].id : i \in 1..Len(result.fieldInstances)}
              \cup {result.fieldInstances[i].name : i \in 1..Len(result.fieldInstances)}
        /\ \A k \in DOMAIN result.fieldInstanceMap :
              result.fieldInstanceMap[k] =
                  result.fieldInstances[LastWriter(result.fieldInstances, k)]

\* two fields loaded, the first named by the id of the second: the key
\* resolves to the second, which has it as its id
C9_Witness ==
    /\ FieldsDone
    /\ Len(result.fieldInstances) = 2
    /\ result.fieldInstances[1].name = result.fieldInstances[2].id
    /\ result.fieldInstanceMap[result.fieldInstances[2].id] = result.fieldInstances[2]
    /\ result.fieldInstanceMap[result.fieldInstances[2].id] # result.fieldInstances[1]

(* ------------------------------------------------ claims on the handlers *)

RowCountDone == pc = "done" /\ op = "performRowCount"

AggregationDone == pc = "done" /\ op = "performAggregation"

\* the calls of a call that compile a filter, narrow link candidates or
\* execute a raw query
QueryPathCalls ==
    {i \in 1..Len(calls) :
        calls[i].call \in {"dbProvider.filterQuery", "recordService.buildLinkCandidateQuery",
                           "prisma.$queryRawUnsafe"}}

\* C5: performRowCount with a filterLinkCellSelected that resolves to n ids
\* returns rowCount = n; whatever viewId, filter and filterLinkCellCandidate
\* come with it, no filter is compiled, no link candidates are narrowed and no
\* count query is built or executed.
C5_SelectedBypassesQuery ==
    (RowCountDone /\ args.queryRo.filterLinkCellSelected # Undefined) =>
        /\ result = [rowCount |-> Len(args.ids)]
        /\ QueryPathCalls = {}

\* a selection of MaxIds ids counted while a view with a filter, a caller's
\* filter and link candidates were given, and the store's count is another
C5_Witness ==
    /\ RowCountDone
    /\ args.queryRo = [viewId |-> "viw1", filter |-> "callerFilter",
                       filterLinkCellCandidate |-> "candidate",
                       filterLinkCellSelected |-> "selected"]
    /\ args.store.view.val.filter = "viewFilter"
    /\ locals.statisticsData.filter = Some(<<"viewFilter", "callerFilter">>)
    /\ Len(args.ids) = MaxIds
    /\ args.rawRowCountData = Some(4)
    /\ result.rowCount = MaxIds

\* the functions the caller of performAggregation gave for a field
SuppliedFuncs(fieldId) ==
    IF args.withView.has /\ args.withView.val.customFieldStats.has
    THEN LET l == args.withView.val.customFieldStats.val IN
         {l[i].statisticFunc : i \in {j \in 1..Len(l) : l[j].fieldId = fieldId}} \ {Undefined}
    ELSE {}

\* what the view read by the call says of a field: hidden, default function
ViewHidden(fieldId) ==
    /\ locals.viewRaw.has
    /\ locals.viewRaw.val.columnMeta.has
    /\ fieldId \in DOMAIN locals.viewRaw.val.columnMeta.val
    /\ locals.viewRaw.val.columnMeta.val[fieldId].hidden

ViewDefault(fieldId) ==
    IF /\ locals.viewRaw.has
       /\ locals.viewRaw.val.columnMeta.has
       /\ fieldId \in DOMAIN locals.viewRaw.val.columnMeta.val
    THEN locals.viewRaw.val.columnMeta.val[fieldId].statisticFunc
    ELSE Undefined

StatisticFieldsBuilt ==
    IF locals.statisticsData.statisticFields.has
    THEN locals.statisticsData.statisticFields.val
    ELSE <<>>

\* C6: every entry of the statistic-field list is of a candidate field that
\* the view does not mark hidden; its function is one the caller gave for the
\* field when the caller gave any, else the view's stored default; a field
\* that is hidden, or has no function from either source, has no entry.
C6_StatisticFields ==
    AggregationDone =>
        LET list == StatisticFieldsBuilt
            candidates == {locals.filteredFieldInstances[i].id :
                              i \in 1..Len(locals.filteredFieldInstances)} IN
        /\ \A i \in 1..Len(list) :
              /\ list[i].fieldId \in candidates
              /\ ~ViewHidden(list[i].fieldId)
              /\ IF SuppliedFuncs(list[i].fieldId) # {}
                 THEN list[i].statisticFunc \in SuppliedFuncs(list[i].fieldId)
                 ELSE /\ ViewDefault(list[i].fieldId) # Undefined
                      /\ list[i].statisticFunc = ViewDefault(list[i].fieldId)
        /\ \A f \in candidates :
              (ViewHidden(f) \/ (SuppliedFuncs(f) = {} /\ ViewDefault(f) = Undefined)) =>
                  \A i \in 1..Len(list) : list[i].fieldId # f

\* a list built from a view and the caller's functions: the caller's function
\* replaces the default of one field, and the other field, hidden, has no
\* entry although the caller gave a function for it
C6_Witness ==
    /\ AggregationDone
    /\ ViewHidden(fldDate.id)
    /\ SuppliedFuncs(fldDate.id) = {"Sum"}
    /\ ~ViewHidden(fldText.id)
    /\ ViewDefault(fldText.id) = "Count"
    /\ SuppliedFuncs(fldText.id) = {"PercentEmpty"}
    /\ StatisticFieldsBuilt = <<[fieldId |-> fldText.id, statisticFunc |-> "PercentEmpty"]>>

AggregationQueries ==
    {i \in 1..Len(calls) : calls[i].call = "prisma.$queryRawUnsafe"}

\* C8: with an empty or absent statistic-field list performAggregation issues
\* no aggregation query and returns an empty aggregations list, no error; the
\* query is executed only when the list is non-empty, and then once.
C8_NoQueryWithoutStatistics ==
    AggregationDone =>
        IF StatisticFieldsBuilt = <<>>
        THEN AggregationQueries = {} /\ result = [aggregations |-> <<>>]
        ELSE Cardinality(AggregationQueries) = 1

\* a call that found a view and was given statistics, none of which resolved
\* to a function: no query, no aggregations
C8_Witness ==
    /\ AggregationDone
    /\ locals.viewRaw.has
    /\ args.withView.val.customFieldStats.has
    /\ Len(args.withView.val.customFieldStats.val) > 0
    /\ ~locals.statisticsData.statisticFields.has
    /\ AggregationQueries = {}
    /\ result.aggregations = <<>>

(* ---------------------------------------------- claims on getGroupPoints *)

GroupPointsCall == op = "getGroupPoints"

RawQueries(kind) ==
    {i \in 1..Len(calls) : calls[i].call = "prisma.$queryRawUnsafe" /\ calls[i].query = kind}

\* C1: the pre-check is executed and its result compared with
\* maxGroupPoints before the grouped query is executed; when the pre-check
\* reports the ceiling exceeded the call fails with PayloadTooLarge, the
\* grouped query is never executed and the pre-check is the call's one raw
\* query execution.
C1_PreCheckFirst ==
    GroupPointsCall =>
        /\ \A j \in RawQueries("group") :
              \E i \in RawQueries("countDistinct") :
                  i < j /\ calls[i].returned <= maxGroupPoints
        /\ \A i \in RawQueries("countDistinct") :
              calls[i].returned > maxGroupPoints =>
                  /\ pc = "done"
                  /\ result = [kind |-> "error", status |-> "PAYLOAD_TOO_LARGE"]
                  /\ RawQueries("group") = {}
                  /\ Cardinality(RawQueries("countDistinct") \cup RawQueries("group")) = 1

\* a call that failed on the pre-check
C1_Witness ==
    /\ GroupPointsCall
    /\ pc = "done"
    /\ result = [kind |-> "error", status |-> "PAYLOAD_TOO_LARGE"]
    /\ Len(calls) > 0
    /\ calls[Len(calls)].call = "prisma.$queryRawUnsafe"
    /\ calls[Len(calls)].query = "countDistinct"
    /\ calls[Len(calls)].returned = 3

\* the distinct combinations of the group-by values in the filtered rows
GroupCombinations ==
    {Projection(args.store.rows[i],
                GroupFieldsOf(locals.groupFieldIds, locals.fieldInstanceMap)) :
        i \in 1..Len(args.store.rows)}

\* C2: when the distinct combinations of the group-by values number more
\* than maxGroupPoints the call fails with PayloadTooLarge; every sequence
\* returned holds at most maxGroupPoints Row points.
C2_CombinationsBounded ==
    (GroupPointsCall /\ pc = "done" /\ result.kind # "null") =>
        /\ Cardinality(GroupCombinations) > maxGroupPoints => result.kind = "error"
        /\ result.kind = "points" =>
              Cardinality(RowPositions(result.points)) <= maxGroupPoints

====
